---- MODULE Spec2Model ----
(***************************************************************************)
(* Model of the hello-world on-chain program (program-rust/src/lib.rs):    *)
(* the instruction decoder SolanaInstruction::unpack and the entrypoint    *)
(* process_instruction with its three handlers.                            *)
(*                                                                         *)
(* Numbers wider than TLC's integers are kept as 16-bit limbs: a u32 is a  *)
(* record [lo, hi], a u64 a sequence of four limbs, least significant      *)
(* first.  Account data and instruction data are sequences of bytes.       *)
(***************************************************************************)
EXTENDS Integers, Sequences, FiniteSets, TLC

VARIABLES
    program_id,       \* the identity the program is deployed under
    overflow_checks,  \* build profile: TRUE = arithmetic overflow panics
    ledger,           \* account key -> [owner, data]
    ncalls,           \* number of invocations made so far
    call,             \* the last invocation's arguments
    pre,              \* the ledger as the last invocation found it
    result,           \* the last invocation's result
    events,           \* the last invocation's steps, in program order
    invoked,          \* the delegated calls the last invocation issued
    input,            \* decoder run: the buffer handed to unpack
    unpacked          \* decoder run: what unpack returned

vars == <<program_id, overflow_checks, ledger, ncalls, call, pre, result,
          events, invoked, input, unpacked>>

-----------------------------------------------------------------------------
(* Program constants and widths *)

SIZE == 42

LIMB == 65536

BYTE == 256

-----------------------------------------------------------------------------
(* Bounds of the model *)

MaxCalls == 2

MaxDataLen == 5

MaxInstrLen == 10

Pubkeys == {1, 2}

AccountKeys == {1, 2}

-----------------------------------------------------------------------------
(* Byte-level helpers *)

Zeros(n) == [i \in 1..n |-> 0]

\* slice.get(..n): the first n elements, or none when the slice is shorter
get_to(s, n) == IF Len(s) >= n THEN [ok |-> TRUE, slice |-> SubSeq(s, 1, n)]
                ELSE [ok |-> FALSE, slice |-> <<>>]

\* u64::from_le_bytes on an 8-byte array
u64_from_le_bytes(b) == [k \in 1..4 |-> b[2 * k - 1] + BYTE * b[2 * k]]

\* u32 as borsh reads it: 4 bytes, little-endian
u32_from_le_bytes(b) == [lo |-> b[1] + BYTE * b[2], hi |-> b[3] + BYTE * b[4]]

\* u32 as borsh writes it: 4 bytes, little-endian
u32_to_le_bytes(c) == <<c.lo % BYTE, c.lo \div BYTE, c.hi % BYTE, c.hi \div BYTE>>

U32_MAX == [lo |-> LIMB - 1, hi |-> LIMB - 1]

\* c + 1 in 32 bits, wrapping
wrapping_add_1(c) ==
    IF c.lo + 1 < LIMB THEN [lo |-> c.lo + 1, hi |-> c.hi]
    ELSE [lo |-> 0, hi |-> (c.hi + 1) % LIMB]

-----------------------------------------------------------------------------
(* SolanaInstruction::unpack *)

Err(e) == [ok |-> FALSE, err |-> e]

\* mutant: the amount read most significant byte first
unpack_amount_be(rest) ==
    LET g == get_to(rest, 8) IN
    IF g.ok THEN [ok |-> TRUE,
                  amount |-> u64_from_le_bytes([i \in 1..8 |-> g.slice[9 - i]])]
    ELSE Err("InvalidInstructionData")

unpack_amount(rest) ==
    LET g == get_to(rest, 8) IN
    IF g.ok THEN [ok |-> TRUE, amount |-> u64_from_le_bytes(g.slice)]
    ELSE Err("InvalidInstructionData")

unpack(data) ==
    IF Len(data) = 0 THEN Err("InvalidInstructionData")
    ELSE LET tag  == Head(data)
             rest == Tail(data)
             amt  == unpack_amount(rest)
         IN CASE tag = 0 -> IF amt.ok
                            THEN [ok |-> TRUE, variant |-> "ExampleInstruction",
                                  amount |-> amt.amount]
                            ELSE Err(amt.err)
              [] tag = 1 -> [ok |-> TRUE, variant |-> "CPIInstruction"]
              [] tag = 2 -> IF amt.ok
                            THEN [ok |-> TRUE, variant |-> "TransferInstruction",
                                  amount |-> amt.amount]
                            ELSE Err(amt.err)
              [] OTHER   -> Err("InvalidInstructionData")

-----------------------------------------------------------------------------
(* GreetingAccount (borsh) *)

\* mutant: a plain deserialize, which leaves trailing bytes alone
try_from_slice_prefix(v) ==
    IF Len(v) < 4 THEN Err("BorshIoError: Unexpected length of input")
    ELSE [ok |-> TRUE, counter |-> u32_from_le_bytes(SubSeq(v, 1, 4))]

\* BorshDeserialize::try_from_slice: reads the u32 and rejects leftover bytes
try_from_slice(v) ==
    IF Len(v) < 4 THEN Err("BorshIoError: Unexpected length of input")
    ELSE IF Len(v) > 4 THEN Err("BorshIoError: Not all bytes read")
    ELSE [ok |-> TRUE, counter |-> u32_from_le_bytes(SubSeq(v, 1, 4))]

\* BorshSerialize::serialize into the account's data slice: write_all of the
\* 4 bytes at the start of the slice; a shorter slice takes what fits and fails
serialize(c, buf) ==
    LET bytes == u32_to_le_bytes(c) IN
    IF Len(buf) >= 4
    THEN [ok |-> TRUE, data |-> bytes \o SubSeq(buf, 5, Len(buf))]
    ELSE [ok |-> FALSE, err |-> "BorshIoError: failed to write whole buffer",
          data |-> SubSeq(bytes, 1, Len(buf))]

-----------------------------------------------------------------------------
(* Handlers.  Each returns the result, the ledger it leaves, the steps it   *)
(* took and the delegated calls it issued.                                  *)

Outcome(r, l, ev, iv) == [result |-> r, ledger |-> l, events |-> ev, invoked |-> iv]

\* Pubkey::find_program_address(&[program_id], program_id): a deterministic
\* function of the program id; the hash itself is not modelled
find_program_address(pid) == [address |-> 100 + pid, nonce |-> 255 - pid]

\* mutant: the record is incremented in memory and never written back
greet_no_store(key, l, oc, ev, iv) ==
    LET acc == try_from_slice(l[key].data) IN
    IF ~acc.ok THEN Outcome(acc.err, l, ev \o <<"read">>, iv)
    ELSE IF oc /\ acc.counter = U32_MAX
         THEN Outcome("Panic", l, ev \o <<"read">>, iv)
    ELSE Outcome("Ok", l, ev \o <<"read">>, iv)

\* lines 118-121 and 166-169: read the record, add one, write it back
greet(key, l, oc, ev, iv) ==
    LET acc == try_from_slice(l[key].data) IN
    IF ~acc.ok THEN Outcome(acc.err, l, ev \o <<"read">>, iv)
    ELSE IF oc /\ acc.counter = U32_MAX
         THEN Outcome("Panic", l, ev \o <<"read">>, iv)
    ELSE LET w == serialize(wrapping_add_1(acc.counter), l[key].data)
             l2 == [l EXCEPT ![key].data = w.data]
         IN IF w.ok THEN Outcome("Ok", l2, ev \o <<"read", "write">>, iv)
            ELSE Outcome(w.err, l2, ev \o <<"read", "write">>, iv)

\* mutant: Transfer greets the first account it is given
process_transfer_greets(accounts, amount, pid, l) ==
    IF Len(accounts) < 1 THEN Outcome("Ok", l, <<>>, <<>>)
    ELSE LET g == greet(accounts[1], l, FALSE, <<>>, <<>>) IN
         Outcome("Ok", g.ledger, g.events, <<>>)

process_transfer(accounts, amount, pid, l) == Outcome("Ok", l, <<>>, <<>>)

\* mutant: the ownership check is left out
process_example_unchecked(accounts, amount, pid, l, oc) ==
    IF Len(accounts) < 1 THEN Outcome("NotEnoughAccountKeys", l, <<>>, <<>>)
    ELSE greet(accounts[1], l, oc, <<>>, <<>>)

\* mutant: a foreign account is reported with another error code
process_example_wrong_code(accounts, amount, pid, l, oc) ==
    IF Len(accounts) < 1 THEN Outcome("NotEnoughAccountKeys", l, <<>>, <<>>)
    ELSE LET account == accounts[1] IN
         IF l[account].owner # pid
         THEN Outcome("InvalidAccountData", l, <<"owner_check">>, <<>>)
         ELSE greet(account, l, oc, <<"owner_check">>, <<>>)

\* (the program address derived at lines 109-110 is never used here)
process_example(accounts, amount, pid, l, oc) ==
    IF Len(accounts) < 1 THEN Outcome("NotEnoughAccountKeys", l, <<>>, <<>>)
    ELSE LET account == accounts[1] IN
         IF l[account].owner # pid
         THEN Outcome("IncorrectProgramId", l, <<"owner_check">>, <<>>)
         ELSE greet(account, l, oc, <<"owner_check">>, <<>>)

\* The host's side of invoke_signed(system_instruction::allocate(key, space)):
\* ret is the host's answer; success leaves the account with space zero bytes
host_allocate(l, key, space, ret) ==
    IF ret = "Ok" THEN [l EXCEPT ![key].data = Zeros(space)] ELSE l

\* mutant: the delegated call's result is dropped instead of propagated
process_cpi_swallow(accounts, pid, l, oc, ret) ==
    IF Len(accounts) < 2 THEN Outcome("NotEnoughAccountKeys", l, <<>>, <<>>)
    ELSE LET account == accounts[1]
             allocated_info == accounts[2]
             pda == find_program_address(pid)
             instr == [program |-> "system", op |-> "allocate",
                       key |-> allocated_info, space |-> SIZE,
                       infos |-> <<account, allocated_info>>,
                       seeds |-> <<pid, pda.nonce>>]
             l1 == host_allocate(l, allocated_info, SIZE, ret)
         IN IF l1[account].owner # pid
            THEN Outcome("IncorrectProgramId", l1, <<"invoke", "owner_check">>,
                         <<instr>>)
            ELSE greet(account, l1, oc, <<"invoke", "owner_check">>, <<instr>>)

\* mutant: the ownership check is made before the delegated call
process_cpi_check_first(accounts, pid, l, oc, ret) ==
    IF Len(accounts) < 2 THEN Outcome("NotEnoughAccountKeys", l, <<>>, <<>>)
    ELSE LET account == accounts[1]
             allocated_info == accounts[2]
             pda == find_program_address(pid)
             instr == [program |-> "system", op |-> "allocate",
                       key |-> allocated_info, space |-> SIZE,
                       infos |-> <<account, allocated_info>>,
                       seeds |-> <<pid, pda.nonce>>]
             l1 == host_allocate(l, allocated_info, SIZE, ret)
         IN IF l[account].owner # pid
            THEN Outcome("IncorrectProgramId", l, <<"owner_check">>, <<>>)
            ELSE IF ret # "Ok"
            THEN Outcome(ret, l1, <<"owner_check", "invoke">>, <<instr>>)
            ELSE greet(account, l1, oc, <<"owner_check", "invoke">>, <<instr>>)

process_cpi(accounts, pid, l, oc, ret) ==
    IF Len(accounts) < 2 THEN Outcome("NotEnoughAccountKeys", l, <<>>, <<>>)
    ELSE LET account == accounts[1]
             allocated_info == accounts[2]
             pda == find_program_address(pid)
             instr == [program |-> "system", op |-> "allocate",
                       key |-> allocated_info, space |-> SIZE,
                       infos |-> <<account, allocated_info>>,
                       seeds |-> <<pid, pda.nonce>>]
             l1 == host_allocate(l, allocated_info, SIZE, ret)
         IN IF ret # "Ok" THEN Outcome(ret, l1, <<"invoke">>, <<instr>>)
            ELSE IF l1[account].owner # pid
            THEN Outcome("IncorrectProgramId", l1, <<"invoke", "owner_check">>,
                         <<instr>>)
            ELSE greet(account, l1, oc, <<"invoke", "owner_check">>, <<instr>>)

process_instruction(pid, accounts, instruction_data, l, oc, ret) ==
    LET instruction == unpack(instruction_data) IN
    IF ~instruction.ok THEN Outcome(instruction.err, l, <<>>, <<>>)
    ELSE CASE instruction.variant = "ExampleInstruction" ->
                process_example(accounts, instruction.amount, pid, l, oc)
           [] instruction.variant = "CPIInstruction" ->
                process_cpi(accounts, pid, l, oc, ret)
           [] instruction.variant = "TransferInstruction" ->
                process_transfer(accounts, instruction.amount, pid, l)

-----------------------------------------------------------------------------
(* The inputs the model draws from *)

\* the first n elements of s
Take(s, n) == SubSeq(s, 1, n)

Pad == [i \in 1..(MaxDataLen + 4) |-> 7]

CounterSamples == {[lo |-> LIMB - 1, hi |-> 0], U32_MAX}

\* account data as account creation may leave it: a record, cut short or with
\* bytes after it
InitData == {Take(u32_to_le_bytes(c) \o Pad, n) : c \in CounterSamples, n \in 0..MaxDataLen}

\* the second account starts unallocated or as a fresh record
FreshData == {<<>>, Zeros(4)}

InitLedgers ==
    {l \in [AccountKeys -> [owner : Pubkeys, data : InitData \cup FreshData]] :
        l[1].data \in InitData /\ l[2].data \in FreshData}

\* the account lists a caller may hand over: distinct accounts, in any order
AccountLists ==
    {<<>>} \cup {<<a>> : a \in AccountKeys}
           \cup {p \in AccountKeys \X AccountKeys : p[1] # p[2]}

Amount0 == Zeros(8)

Amount1 == <<1, 2, 3, 4, 5, 6, 7, 8>>

InstrSamples ==
    {<<>>, <<0>> \o Amount0, <<0>> \o Amount1, <<1>>, <<2>> \o Amount1,
     <<3>>, <<0, 1, 2>>}

\* what the system program may answer to the allocate call
DelegatedErrors == {"Custom(0)", "MissingRequiredSignature"}

\* What the host would answer to an allocate on the second account.  It is
\* drawn only for the invocations that can get as far as the delegated call
\* (tag 1 with two accounts); allocate succeeds only on an account that holds
\* no data yet.
HostAnswers(l, accounts, data) ==
    IF ~(Len(data) >= 1 /\ data[1] = 1 /\ Len(accounts) >= 2) THEN {"none"}
    ELSE IF l[accounts[2]].data = <<>> THEN {"Ok"} \cup DelegatedErrors
    ELSE DelegatedErrors

NoCall == [accounts |-> <<>>, data |-> <<>>, host_ret |-> "none"]

NotRun == [ok |-> FALSE, err |-> "not run"]

-----------------------------------------------------------------------------
(* The program as the runtime drives it: one invocation after another *)

Init ==
    /\ program_id \in Pubkeys
    /\ overflow_checks \in BOOLEAN
    /\ ledger \in InitLedgers
    /\ ncalls = 0
    /\ call = NoCall
    /\ pre = ledger
    /\ result = "none"
    /\ events = <<>>
    /\ invoked = <<>>
    /\ input = <<>>
    /\ unpacked = NotRun

Invoke ==
    /\ ncalls < MaxCalls
    /\ \E accounts \in AccountLists, data \in InstrSamples :
         \E ret \in HostAnswers(ledger, accounts, data) :
            LET out == process_instruction(program_id, accounts, data, ledger,
                                           overflow_checks, ret)
            IN /\ ledger' = out.ledger
               /\ result' = out.result
               /\ events' = out.events
               /\ invoked' = out.invoked
               /\ call' = [accounts |-> accounts, data |-> data,
                           host_ret |-> ret]
    /\ pre' = ledger
    /\ ncalls' = ncalls + 1
    /\ UNCHANGED <<program_id, overflow_checks, input, unpacked>>

Next == Invoke

Spec == Init /\ [][Next]_vars

-----------------------------------------------------------------------------
(* The decoder on its own: every buffer up to MaxInstrLen bytes *)

TagSamples == {0, 1, 2, 3, 255}

ByteSamples == {0, 255}

RECURSIVE Buffers(_)
Buffers(n) ==
    IF n = 0 THEN {<<>>}
    ELSE IF n = 1 THEN {<<t>> : t \in TagSamples}
    ELSE {Append(b, x) : b \in Buffers(n - 1), x \in ByteSamples}

InstrBuffers == UNION {Buffers(n) : n \in 0..MaxInstrLen}

InitUnpack ==
    /\ program_id = 1
    /\ overflow_checks = FALSE
    /\ ledger = [a \in AccountKeys |-> [owner |-> 1, data |-> <<>>]]
    /\ ncalls = 0
    /\ call = NoCall
    /\ pre = ledger
    /\ result = "none"
    /\ events = <<>>
    /\ invoked = <<>>
    /\ input \in InstrBuffers
    /\ unpacked = NotRun

DoUnpack ==
    /\ unpacked = NotRun
    /\ unpacked' = unpack(input)
    /\ UNCHANGED <<program_id, overflow_checks, ledger, ncalls, call, pre,
                   result, events, invoked, input>>

NextUnpack == DoUnpack

SpecUnpack == InitUnpack /\ [][NextUnpack]_vars

-----------------------------------------------------------------------------
(* Vocabulary of the properties, stated on the raw bytes and not through    *)
(* the program's own decoder or (de)serializer                              *)

Called == ncalls > 0

IsExampleData(d) == Len(d) >= 9 /\ d[1] = 0

IsCpiData(d) == Len(d) >= 1 /\ d[1] = 1

IsTransferData(d) == Len(d) >= 9 /\ d[1] = 2

\* the first account of the last invocation
Target == call.accounts[1]

\* the number the first four bytes of d spell, little-endian, in 16-bit limbs
CounterAt(d) == [lo |-> d[1] + 256 * d[2], hi |-> d[3] + 256 * d[4]]

MaxCounter == [lo |-> 65535, hi |-> 65535]

\* b = a + 1 as numbers
IsSucc(a, b) ==
    \/ b.hi = a.hi /\ b.lo = a.lo + 1
    \/ b.hi = a.hi + 1 /\ a.lo = 65535 /\ b.lo = 0

\* a <= b as numbers
CounterLeq(a, b) == a.hi < b.hi \/ (a.hi = b.hi /\ a.lo <= b.lo)

\* the last invocation was a well-formed Example on an account the program
\* owns whose data is a 4-byte record
ExampleOnOwnedRecord ==
    /\ Called
    /\ IsExampleData(call.data)
    /\ Len(call.accounts) >= 1
    /\ pre[Target].owner = program_id
    /\ Len(pre[Target].data) = 4

BorshErrors ==
    {"BorshIoError: Unexpected length of input", "BorshIoError: Not all bytes read",
     "BorshIoError: failed to write whole buffer"}

-----------------------------------------------------------------------------
\* C1 (as stated): an Example on an owned account whose counter is N, for any
\* u32 N including 2^32 - 1, succeeds and leaves the counter N + 1.
C1_AsStated ==
    ExampleOnOwnedRecord =>
        /\ result = "Ok"
        /\ Len(ledger[Target].data) = 4
        /\ IsSucc(CounterAt(pre[Target].data), CounterAt(ledger[Target].data))

\* C1 (amended): an Example on an owned account whose counter is N, for any
\* N < 2^32 - 1, succeeds and leaves the counter N + 1.
C1_ExampleIncrements ==
    (ExampleOnOwnedRecord /\ CounterAt(pre[Target].data) # MaxCounter) =>
        /\ result = "Ok"
        /\ Len(ledger[Target].data) = 4
        /\ IsSucc(CounterAt(pre[Target].data), CounterAt(ledger[Target].data))

\* an Example took the counter 65535 to 65536 (a carry across bytes 2 and 3)
C1_Witness ==
    /\ ExampleOnOwnedRecord
    /\ pre[Target].data = <<255, 255, 0, 0>>
    /\ result = "Ok"
    /\ ledger[Target].data = <<0, 0, 1, 0>>

\* C2: an Example on an account the program does not own fails with
\* IncorrectProgramId and leaves the account as it was, whatever its data.
C2_ForeignAccountRejected ==
    (/\ Called
     /\ IsExampleData(call.data)
     /\ Len(call.accounts) >= 1
     /\ pre[Target].owner # program_id) =>
        /\ result = "IncorrectProgramId"
        /\ ledger[Target] = pre[Target]

\* an Example was rejected on a foreign account whose data is no record
C2_Witness ==
    /\ Called
    /\ IsExampleData(call.data)
    /\ Len(call.accounts) >= 1
    /\ pre[Target].owner # program_id
    /\ Len(pre[Target].data) # 4
    /\ result = "IncorrectProgramId"

\* C3 (as stated): no invocation lowers a stored counter: it is left as it
\* was, or raised by exactly 1 by a successful call that targets the account.
C3_CounterNeverDecreases ==
    Called =>
        \A a \in AccountKeys :
            Len(pre[a].data) = 4 =>
                /\ Len(ledger[a].data) = 4
                /\ \/ ledger[a].data = pre[a].data
                   \/ /\ IsSucc(CounterAt(pre[a].data), CounterAt(ledger[a].data))
                      /\ result = "Ok"
                      /\ Len(call.accounts) >= 1
                      /\ a = Target

\* C4 (as stated): the instruction data is ignored: an empty buffer on a single
\* owned account holding counter 0 succeeds and leaves the counter 1.
C4_EmptyDataGreets ==
    (/\ Called
     /\ call.data = <<>>
     /\ Len(call.accounts) = 1
     /\ pre[Target].owner = program_id
     /\ pre[Target].data = <<0, 0, 0, 0>>) =>
        /\ result = "Ok"
        /\ ledger[Target].data = <<1, 0, 0, 0>>

\* C5: when the delegated allocate fails, a CrossProgramInvoke returns exactly
\* the delegated call's error, whoever owns the target, and leaves the
\* target's data as it was.
C5_DelegatedFailurePropagates ==
    (/\ Called
     /\ IsCpiData(call.data)
     /\ Len(call.accounts) >= 2
     /\ call.host_ret \in DelegatedErrors) =>
        /\ result = call.host_ret
        /\ ledger[Target].data = pre[Target].data

\* a delegated failure came back from a call whose target is foreign
C5_Witness ==
    /\ Called
    /\ IsCpiData(call.data)
    /\ Len(call.accounts) >= 2
    /\ call.host_ret = "Custom(0)"
    /\ pre[Target].owner # program_id
    /\ result = "Custom(0)"
    /\ invoked # <<>>

\* the decoder as the wire format describes it
RefDecode(b) ==
    IF Len(b) = 0 \/ b[1] \notin {0, 1, 2} \/ (b[1] \in {0, 2} /\ Len(b) < 9)
    THEN [ok |-> FALSE, err |-> "InvalidInstructionData"]
    ELSE IF b[1] = 1 THEN [ok |-> TRUE, variant |-> "CPIInstruction"]
    ELSE [ok |-> TRUE,
          variant |-> IF b[1] = 0 THEN "ExampleInstruction"
                      ELSE "TransferInstruction",
          amount |-> <<b[2] + 256 * b[3], b[4] + 256 * b[5],
                       b[6] + 256 * b[7], b[8] + 256 * b[9]>>]

\* C6: unpack agrees with the wire format on every buffer: which buffers it
\* rejects, which variant it returns, the little-endian amount, and trailing
\* bytes ignored.
C6_UnpackMatchesReference ==
    unpacked # NotRun => unpacked = RefDecode(input)

\* a Transfer with trailing bytes was decoded, its amount's bytes not all alike
C6_Witness ==
    /\ unpacked # NotRun
    /\ unpacked.ok
    /\ unpacked.variant = "TransferInstruction"
    /\ Len(input) > 9
    /\ unpacked.amount = <<255, 65280, 0, 65535>>

\* C7: a well-formed Transfer succeeds for every amount and account list,
\* issues no delegated call and leaves every account as it was.
C7_TransferIsNoOp ==
    (Called /\ IsTransferData(call.data)) =>
        /\ result = "Ok"
        /\ invoked = <<>>
        /\ ledger = pre

\* a Transfer succeeded on a foreign first account
C7_Witness ==
    /\ Called
    /\ IsTransferData(call.data)
    /\ Len(call.accounts) >= 1
    /\ pre[Target].owner # program_id
    /\ result = "Ok"

\* the last invocation was a well-formed Example on an owned account
ExampleOnOwned ==
    /\ Called
    /\ IsExampleData(call.data)
    /\ Len(call.accounts) >= 1
    /\ pre[Target].owner = program_id

\* C8 (as stated): on an owned account whose data has any length L >= 4, an
\* Example succeeds, writes N + 1 over bytes 0..3 and leaves the rest alone.
C8_AsStated ==
    (ExampleOnOwned /\ Len(pre[Target].data) >= 4) =>
        /\ result = "Ok"
        /\ Len(ledger[Target].data) = Len(pre[Target].data)
        /\ IsSucc(CounterAt(pre[Target].data), CounterAt(ledger[Target].data))
        /\ \A i \in 5..Len(pre[Target].data) :
              ledger[Target].data[i] = pre[Target].data[i]

\* C8 (amended): the record is the whole of a 4-byte buffer: with L = 4 and
\* N < 2^32 - 1 an Example succeeds and writes N + 1 over bytes 0..3; with
\* L > 4 it fails to deserialize and leaves every byte as it was.
C8_RecordIsWholeBuffer ==
    ExampleOnOwned =>
        /\ (Len(pre[Target].data) = 4 /\ CounterAt(pre[Target].data) # MaxCounter) =>
              /\ result = "Ok"
              /\ ledger[Target].data # pre[Target].data
              /\ ledger[Target].data =
                    <<CounterAt(ledger[Target].data).lo % 256,
                      CounterAt(ledger[Target].data).lo \div 256,
                      CounterAt(ledger[Target].data).hi % 256,
                      CounterAt(ledger[Target].data).hi \div 256>>
              /\ IsSucc(CounterAt(pre[Target].data), CounterAt(ledger[Target].data))
        /\ Len(pre[Target].data) > 4 =>
              /\ result = "BorshIoError: Not all bytes read"
              /\ ledger = pre

\* an Example failed on an owned account that holds the 42 allocated bytes
C8_Witness ==
    /\ ExampleOnOwned
    /\ Len(pre[Target].data) = 42
    /\ result = "BorshIoError: Not all bytes read"

\* the last invocation returned a failure
Failed == Called /\ result \notin {"Ok", "Panic"}

\* the error is one the delegated call returned
FromDelegatedCall ==
    /\ invoked # <<>>
    /\ call.host_ret \in DelegatedErrors
    /\ result = call.host_ret

\* C9 (as stated): every failure returned is InvalidInstructionData,
\* IncorrectProgramId, a deserialization failure or a propagated delegated
\* failure.
C9_AsStated ==
    Failed =>
        \/ result \in {"InvalidInstructionData", "IncorrectProgramId"}
        \/ result \in BorshErrors
        \/ FromDelegatedCall

\* C9 (amended): every failure returned is one of those four or
\* NotEnoughAccountKeys, and that one is returned when the account list is too
\* short for the instruction: empty for Example, under two for
\* CrossProgramInvoke.
C9_ErrorTaxonomy ==
    Failed =>
        \/ result \in {"InvalidInstructionData", "IncorrectProgramId"}
        \/ result \in BorshErrors
        \/ FromDelegatedCall
        \/ /\ result = "NotEnoughAccountKeys"
           /\ \/ IsExampleData(call.data) /\ Len(call.accounts) = 0
              \/ IsCpiData(call.data) /\ Len(call.accounts) < 2

\* a CrossProgramInvoke with a single account came back NotEnoughAccountKeys
C9_Witness ==
    /\ Called
    /\ IsCpiData(call.data)
    /\ Len(call.accounts) = 1
    /\ result = "NotEnoughAccountKeys"

\* C10: a CrossProgramInvoke with two accounts issues exactly one allocate, of
\* 42 bytes on the second account, as its first step: the ownership check and
\* any read or write of the first account come after it and only when it
\* succeeded, so a foreign first account is reported only after the allocate.
C10_AllocateComesFirst ==
    (Called /\ IsCpiData(call.data) /\ Len(call.accounts) >= 2) =>
        /\ Len(invoked) = 1
        /\ invoked[1].op = "allocate"
        /\ invoked[1].space = 42
        /\ invoked[1].key = call.accounts[2]
        /\ events # <<>>
        /\ events[1] = "invoke"
        /\ \A i \in 2..Len(events) : events[i] # "invoke"
        /\ (Len(events) > 1) => call.host_ret = "Ok"
        /\ (call.host_ret = "Ok" /\ pre[Target].owner # program_id) =>
              /\ result = "IncorrectProgramId"
              /\ events = <<"invoke", "owner_check">>
              /\ ledger[call.accounts[2]].data = [i \in 1..42 |-> 0]

\* a foreign first account was reported after the allocate had gone through
C10_Witness ==
    /\ Called
    /\ IsCpiData(call.data)
    /\ Len(call.accounts) >= 2
    /\ result = "IncorrectProgramId"
    /\ Len(invoked) = 1
    /\ Len(ledger[call.accounts[2]].data) = 42

====
